---- MODULE Spec2Model ----
(***************************************************************************)
(* Model of the LiTalkOn mobile client's service layer:                    *)
(*   src/mobile-app/src/services/api.ts   (api client, interceptors,       *)
(*                                         analyzeVoiceComparison)         *)
(*   src/mobile-app/src/services/auth.ts  (login, refreshToken)            *)
(* Every await of the source is a yield point: a handler is cut into one   *)
(* action per stretch of code between two awaits.  Strings are sequences   *)
(* of chunks, so that prefixes, templates and extensions are computed.     *)
(***************************************************************************)
EXTENDS Integers, Sequences, FiniteSets, TLC

\* ---------------------------------------------------------------- bounds
NumReqs == 2
MaxFaults == 1
MaxFrames == 4
NumClips == 2
MaxInFlight == 2
MaxTimeLimit == 1

\* ------------------------------------------------------------- constants
Reqs == 1..NumReqs
NULL == <<>>
Tokens == { <<"t1">>, <<"Token ", "t2">> }
Users == { <<"u1">> }
RefreshValues == { <<"r1">> }
ClipIds == { "c1", "c2" }
ErrStatuses == { 400, 401, 403, 404, 413, 415, 500 }
\* what the server answers to the plain requests of the concurrent client
PlainStatuses == { 400, 401 }
PlainShapes == { "none", "array" }
BadRequestData == { "none", "string", "array", "text" }

VARIABLES
    authToken,      \* api.ts: let authToken
    currentUser,    \* api.ts: let currentUser
    isRefreshing,   \* api.ts: let isRefreshing
    failedQueue,    \* api.ts: let failedQueue (sequence of waiting requests)
    navigationRef,  \* api.ts: let navigationRef (TRUE when a ref is registered)
    navRoute,       \* the route on top of the navigation state; "none"
                    \* until the navigator is mounted (isReady() is false)
    storage,        \* AsyncStorage: auth_token, user_data, refresh_token
    storageOk,      \* FALSE while AsyncStorage operations throw
    faults,         \* number of storage fault toggles so far
    initPc,         \* position of initializeAuth
    initToken,      \* initializeAuth: const storedToken
    req,            \* the requests made through the api client
    lg,             \* the login call (auth.ts)
    lo,             \* the logout call (auth.ts) of the profile screen
    engine,         \* one request inside the voice-comparison analysis engine
    exam,           \* ExamTestDetailScreen: its state, closures and alerts
    practice        \* PracticeTestDetailScreen: its state and closures

\* the state of the analysis engine and of the two test screens
screens == << engine, exam, practice >>

vars == << authToken, currentUser, isRefreshing, failedQueue, navigationRef,
           navRoute, storage, storageOk, faults, initPc, initToken,
           req, lg, lo, engine, exam, practice >>

\* ------------------------------------------------------------ strings
StartsWith(s, prefix) == Len(s) >= 1 /\ s[1] = prefix

Last(s) == s[Len(s)]

ToLowerCase(ext) ==
    CASE ext = "MP3" -> "mp3"
      [] ext = "MP4" -> "mp4"
      [] ext = "WAV" -> "wav"
      [] OTHER -> ext

JsonStringify(u) == <<"json">> \o u

JsonParse(s) == Tail(s)

\* ------------------------------------------------------------- errors
NewError(m) == [ msg |-> m, status |-> 0, request |-> FALSE ]

AxiosError(st) == [ msg |-> <<"Request failed">>, status |-> st, request |-> TRUE ]

NoError == [ msg |-> <<>>, status |-> 0, request |-> FALSE ]

SessionExpired == NewError(<<"Session expired. Please log in again.">>)

RefreshFailed == NewError(<<"Failed to refresh token">>)

\* ------------------------------------------------------------ storage
\* AsyncStorage.setItem / removeItem inside a try-catch: a throw is swallowed
SetItem(st, key, val) == IF storageOk THEN [st EXCEPT ![key] = val] ELSE st

\* AsyncStorage.multiRemove([AUTH_TOKEN_KEY, USER_DATA_KEY]) inside clearAuth
MultiRemove(st) ==
    IF storageOk THEN [st EXCEPT !["auth_token"] = NULL, !["user_data"] = NULL]
    ELSE st

\* --------------------------------------------------------- navigation
\* redirectToLogin: reset to Login only through a registered, ready ref
RedirectToLogin(route) ==
    IF navigationRef /\ route # "none" THEN "Login" ELSE route

\* AppNavigator.checkAuthStatus: the initial route of the stack
InitialRoute(token, user) ==
    IF token # NULL /\ user # NULL THEN "Dashboard" ELSE "Login"

\* ------------------------------------------------- request interceptor
\* "Token <token>", unless the token already carries the prefix
AuthHeader(token) ==
    IF StartsWith(token, "Token ") THEN token ELSE <<"Token ">> \o token

\* api.interceptors.request.use: the Authorization header of the config
RequestInterceptor(token, header) ==
    IF token # NULL THEN AuthHeader(token) ELSE header

\* api(config): the request goes out with the header the interceptor sets
Send(rec, token) ==
    [rec EXCEPT !.pc = "sent", !.sends = @ + 1,
                !.header = RequestInterceptor(token, @)]

\* ------------------------------------------------ response interceptor
\* the message built for a 400 response from error.response.data
BadRequestMessage(data) ==
    CASE data = "string" -> <<"bad input">>
      [] data = "array"  -> <<"field", ": ", "This field is required.">>
      [] data = "text"   -> <<"detail", ": ", "invalid">>
      [] OTHER           -> <<"Invalid request. Please check your data.">>

\* mutant: every status but 2xx and 401 is replaced by a bare Error
MapErrorBare(st, data) ==
    CASE st = 403 -> NewError(<<"You do not have permission to perform this action.">>)
      [] st = 404 -> NewError(<<"The requested resource was not found.">>)
      [] st = 400 -> NewError(BadRequestMessage(data))
      [] OTHER    -> NewError(<<"Request failed">>)

\* the rejection of a response that is neither 2xx nor 401
MapError(st, data) ==
    CASE st = 403 -> NewError(<<"You do not have permission to perform this action.">>)
      [] st = 404 -> NewError(<<"The requested resource was not found.">>)
      [] st = 400 -> NewError(BadRequestMessage(data))
      [] OTHER    -> AxiosError(st)

\* the catch of analyzeVoiceComparison: the error the caller sees
AnalyzeCatch(e, clipId) ==
    IF e.status # 0
    THEN CASE e.status = 401 -> NewError(<<"Your session has expired. Please log in again.">>)
           [] e.status = 403 -> NewError(<<"You do not have permission to perform this analysis.">>)
           [] e.status = 404 -> NewError(<<"Original voice clip with ID ", clipId, " was not found.">>)
           [] e.status = 413 -> NewError(<<"The audio file is too large. Please use a smaller file.">>)
           [] e.status = 415 -> NewError(<<"The audio file format is not supported. Please upload an MP3 file.">>)
           [] OTHER -> NewError(<<"Server error: ", "Unknown error">>)
    ELSE IF e.request
    THEN NewError(<<"No response from server. Please check your internet connection.">>)
    ELSE NewError(<<"Error: ">> \o e.msg)

\* the api call rejects with e: analyzeVoiceComparison maps it in its catch,
\* the other api functions log it and throw it again
Settle(rec, e) ==
    [rec EXCEPT !.pc = "rejected",
                !.error = IF rec.kind = "analyze" THEN AnalyzeCatch(e, rec.clipId) ELSE e]

\* mutant: the 401 handler never sees a refresh running
AlreadyRefreshingNever == FALSE

\* if (isRefreshing): the 401 handler queues instead of refreshing
AlreadyRefreshing == isRefreshing

\* mutant: the _retry mark is not looked at
AlreadyRetriedNever(rec) == FALSE

\* if (originalRequest._retry): the request was already re-sent
AlreadyRetried(rec) == rec.retry

InQueue(q) == \E i \in 1..Len(failedQueue) : failedQueue[i] = q

\* mutant: processQueue(error) forgets to reject
QueueRejectedForgotten(rec, err) == rec

\* processQueue(error): every queued promise rejects with the error
QueueRejected(rec, err) == Settle(rec, err)

\* processQueue(null, token): every queued promise resolves and its
\* continuation re-sends the request through api(originalRequest)
QueueResolved(rec, token) == Send(rec, token)

\* ----------------------------------- voice-comparison analysis engine
\* The engine is the backend behind POST /analyze-voice/; the repository
\* holds its callers and the shape of its result only, so the alignment
\* and the scoring follow the design of the engine (Alignment Engine,
\* Scorer).  Scores are kept in thousandths: 1000 stands for 1.0.
Scale == 1000

\* the neutral score 0.5, "insufficient voiced signal"
Neutral == 500

\* fewer frames than this cannot be aligned (AlignmentError)
MinFrames == 3

\* the largest pitch value of a frame; pitch 0 is an unvoiced frame
MaxPitch == 2

\* local slack of the continuity constraint (Sakoe-Chiba band)
BandSlack == 1

\* cost of two frames with different phonetic labels
MismatchCost == 2

\* the cost of a cell outside the band
Infinity == 1000000

\* a frame of a FeatureSequence: pitch, phonetic label, label confidence
Frames ==
    { [pitch |-> 0, label |-> "sil", conf |-> 0],
      [pitch |-> 1, label |-> "a", conf |-> 1],
      [pitch |-> 2, label |-> "b", conf |-> 1] }

FeatureSequences ==
    UNION { [1..n -> Frames] : n \in (MinFrames - 1)..MaxFrames }

Abs(x) == IF x < 0 THEN -x ELSE x

Min2(a, b) == IF a <= b THEN a ELSE b

Max2(a, b) == IF a >= b THEN a ELSE b

Voiced(f) == f.pitch > 0

\* per-frame cost: pitch distance on voiced frames and label mismatch
LocalCost(fu, fr) ==
    (IF Voiced(fu) /\ Voiced(fr) THEN Abs(fu.pitch - fr.pitch) ELSE 0)
    + (IF fu.label # fr.label THEN MismatchCost ELSE 0)

\* the band is never narrower than the difference of the two lengths
InBand(i, j, n, m) == Abs(i - j) <= Max2(BandSlack, Abs(n - m))

\* mutant: a step pattern that may skip a frame of either sequence
PredecessorsSkipping(i, j) ==
    { p \in { <<i - 1, j - 1>>, <<i - 2, j - 1>>, <<i - 1, j - 2>> } :
        p[1] >= 1 /\ p[2] >= 1 }

\* the cells a path may come from: one frame back in either or both
Predecessors(i, j) ==
    { p \in { <<i - 1, j - 1>>, <<i - 1, j>>, <<i, j - 1>> } :
        p[1] >= 1 /\ p[2] >= 1 }

\* dynamic time warping: the accumulated cost of every cell, filled row by
\* row; the cost of cell (i, j) is entry (i - 1) * Len(ref) + j
RECURSIVE FillCosts(_, _, _)
FillCosts(user, ref, c) ==
    IF c = 0 THEN <<>>
    ELSE LET m == Len(ref)
             i == ((c - 1) \div m) + 1
             j == ((c - 1) % m) + 1
             D == FillCosts(user, ref, c - 1)
             prev == { D[(p[1] - 1) * m + p[2]] : p \in Predecessors(i, j) }
             best == IF prev = {} THEN Infinity
                     ELSE CHOOSE x \in prev : \A y \in prev : x <= y
         IN  Append(D,
                IF ~InBand(i, j, Len(user), m) THEN Infinity
                ELSE IF i = 1 /\ j = 1 THEN LocalCost(user[1], ref[1])
                ELSE Min2(Infinity, LocalCost(user[i], ref[j]) + best))

AccumulatedCost(user, ref) == FillCosts(user, ref, Len(user) * Len(ref))

\* tie-break: the cheapest predecessor, then the one closest to the
\* diagonal, then the diagonal step
StepRank(D, m, p, i, j) ==
    D[(p[1] - 1) * m + p[2]] * 100 + Abs(p[1] - p[2]) * 10
    + (IF p = <<i - 1, j - 1>> THEN 0 ELSE IF p[1] = i - 1 THEN 1 ELSE 2)

RECURSIVE Backtrack(_, _, _, _)
Backtrack(D, m, i, j) ==
    LET prev == Predecessors(i, j)
    IN  IF prev = {} THEN << <<i - 1, j - 1>> >>
        ELSE LET p == CHOOSE x \in prev :
                        \A y \in prev :
                            StepRank(D, m, x, i, j) <= StepRank(D, m, y, i, j)
             IN  Append(Backtrack(D, m, p[1], p[2]), <<i - 1, j - 1>>)

\* the warping path as pairs (user index, reference index) counted from 0
WarpingPath(user, ref) ==
    Backtrack(AccumulatedCost(user, ref), Len(ref), Len(user), Len(ref))

TooShort(user, ref) == Len(user) < MinFrames \/ Len(ref) < MinFrames

\* ---------------------------------------------------------------- Scorer
RECURSIVE SumSeq(_)
SumSeq(s) == IF s = <<>> THEN 0 ELSE s[1] + SumSeq(Tail(s))

\* a quotient in thousandths; a zero denominator gives NaN
Ratio(num, den) ==
    IF den = 0 THEN [nan |-> TRUE, val |-> 0]
    ELSE [nan |-> FALSE, val |-> (num * Scale) \div den]

OneMinus(x) == [nan |-> x.nan, val |-> Scale - x.val]

Clamp(v) == IF v < 0 THEN 0 ELSE IF v > Scale THEN Scale ELSE v

\* mutant: the score is clamped but a NaN is passed on
FinalScorePropagating(x) == [nan |-> x.nan, val |-> Clamp(x.val)]

\* all scores clamp to [0,1]; NaN falls back to the neutral score
FinalScore(x) ==
    IF x.nan THEN [nan |-> FALSE, val |-> Neutral]
    ELSE [nan |-> FALSE, val |-> Clamp(x.val)]

\* 1 minus the average pitch deviation over the aligned pairs in which
\* both frames are voiced
PitchScore(path, user, ref) ==
    LET both(k) == Voiced(user[path[k][1] + 1]) /\ Voiced(ref[path[k][2] + 1])
        devs == [ k \in 1..Len(path) |->
                    IF both(k)
                    THEN Abs(user[path[k][1] + 1].pitch - ref[path[k][2] + 1].pitch)
                    ELSE 0 ]
        count == Cardinality({ k \in 1..Len(path) : both(k) })
    IN  FinalScore(OneMinus(Ratio(SumSeq(devs), count * MaxPitch)))

\* 1 minus the average distance of the path from the identity diagonal
RhythmScore(path, user, ref) ==
    LET devs == [ k \in 1..Len(path) |-> Abs(path[k][1] - path[k][2]) ]
    IN  FinalScore(OneMinus(Ratio(SumSeq(devs),
                   Len(path) * Max2(Len(user) - 1, Len(ref) - 1))))

\* 1 minus the label mismatch rate over the aligned pairs, each pair
\* weighted by the confidence of its labels
PronunciationScore(path, user, ref) ==
    LET w(k) == Min2(user[path[k][1] + 1].conf, ref[path[k][2] + 1].conf)
        miss == [ k \in 1..Len(path) |->
                    IF user[path[k][1] + 1].label # ref[path[k][2] + 1].label
                    THEN w(k) ELSE 0 ]
        weights == [ k \in 1..Len(path) |-> w(k) ]
    IN  FinalScore(OneMinus(Ratio(SumSeq(miss), SumSeq(weights))))

\* the weights of pitch, rhythm and pronunciation; equal by default
Weights == << 1, 1, 1 >>

\* mutant: the sub-scores are added up and clamped, not averaged
OverallSum(p, r, n) ==
    [nan |-> p.nan \/ r.nan \/ n.nan, val |-> Clamp(p.val + r.val + n.val)]

\* fixed-weight average of the three sub-scores
Overall(p, r, n) ==
    [nan |-> p.nan \/ r.nan \/ n.nan,
     val |-> (Weights[1] * p.val + Weights[2] * r.val + Weights[3] * n.val)
             \div SumSeq(Weights)]

\* the AnalysisResult built by the Scorer
ScoreAlignment(path, user, ref) ==
    LET p == PitchScore(path, user, ref)
        r == RhythmScore(path, user, ref)
        n == PronunciationScore(path, user, ref)
    IN  [similarityScore |-> Overall(p, r, n),
         pitch |-> p, rhythm |-> r, pronunciation |-> n]

NoResult ==
    LET z == [nan |-> FALSE, val |-> 0]
    IN  [similarityScore |-> z, pitch |-> z, rhythm |-> z, pronunciation |-> z]

\* mockData.ts: the analysis result used when USE_MOCK_DATA is set
mockAnalysisResult ==
    [similarityScore |-> [nan |-> FALSE, val |-> 780],
     pitch |-> [nan |-> FALSE, val |-> 820],
     rhythm |-> [nan |-> FALSE, val |-> 750],
     pronunciation |-> [nan |-> FALSE, val |-> 850]]

NewEngine ==
    [pc |-> "idle", user |-> <<>>, ref |-> <<>>, path |-> <<>>,
     error |-> "", result |-> NoResult]

\* ------------------------------------------------ ExamTestDetailScreen
\* test.timeLimit is in minutes, timeRemaining in seconds
SecondsPerMinute == 60

\* the similarityScore of an analysis result, in percent
Scores == { 40, 90 }

\* the file AudioRecorder hands to onRecordingComplete
RecordedFile == [type |-> <<"audio/", "mp3">>, name |-> <<"recording_", "mp3">>]

\* a sequence without its k-th element
Remove(s, k) == [ i \in 1..(Len(s) - 1) |-> IF i < k THEN s[i] ELSE s[i + 1] ]

\* the useState values of the screen after the first render; stops and
\* analyses are the calls of stopRecording and analyzeAudio waiting at
\* their await, each with the values of the render that created it;
\* interval is TRUE while a setInterval of the timer effect is live.
\* analysisResults only grows by appending once the exam is started, so
\* the analysisResults array a closure holds is a prefix of the current
\* one and is kept as its length (seen, effectSeen)
NewExam ==
    [isLoading |-> TRUE, error |-> FALSE, timeLimit |-> 0, voiceClips |-> <<>>,
     currentClipIndex |-> 0, isRecording |-> FALSE, isAnalyzing |-> FALSE,
     analysisResults |-> <<>>, isExamStarted |-> FALSE,
     isExamCompleted |-> FALSE, timeRemaining |-> NULL,
     showConfirmModal |-> FALSE, interval |-> FALSE, effectSeen |-> 0,
     starts |-> 0, stops |-> <<>>, analyses |-> <<>>,
     alerts |-> <<>>, lastAlert |-> ""]

\* the analysisResults array of an earlier render, which held n results
Seen(e, n) == SubSeq(e.analysisResults, 1, n)

\* the condition of the timer effect
TimerCondition(e) ==
    e.isExamStarted /\ e.timeRemaining # NULL /\ ~e.isExamCompleted

\* the render after a handler: the timer effect is cleaned up and run
\* again when one of its dependencies changed, and its new interval
\* closes over the handlers of that render
Render(old, new) ==
    IF \/ old.isExamStarted # new.isExamStarted
       \/ old.timeRemaining # new.timeRemaining
       \/ old.isExamCompleted # new.isExamCompleted
    THEN [new EXCEPT !.interval = TimerCondition(new),
                     !.effectSeen = Len(new.analysisResults)]
    ELSE new

\* (total / count).toFixed(1), in tenths
ToFixed1(total, count) == (20 * total + count) \div (2 * count)

\* totalScore / (analysisResults.length || 1)
AverageScore(results) ==
    ToFixed1(SumSeq([ k \in 1..Len(results) |-> results[k].similarityScore ]),
             IF Len(results) = 0 THEN 1 ELSE Len(results))

\* mutant: completing the exam also ends it as a started exam
HandleExamCompleteStopped(e, results) ==
    [e EXCEPT !.isExamCompleted = TRUE, !.isExamStarted = FALSE,
              !.alerts = Append(@, AverageScore(results)),
              !.lastAlert = "Exam Completed"]

\* handleExamComplete of a render whose analysisResults is results
HandleExamComplete(e, results) ==
    [e EXCEPT !.isExamCompleted = TRUE,
              !.alerts = Append(@, AverageScore(results)),
              !.lastAlert = "Exam Completed"]

\* mutant: the time is up only at prevTime <= 0
TimeIsUpLate(prevTime) == prevTime <= 0

\* setTimeRemaining updater: prevTime === null || prevTime <= 1
TimeIsUp(prevTime) == prevTime <= 1

\* renderCurrentClip is rendered, and with it the AudioRecorder
RecorderShown(e) ==
    /\ ~e.isLoading /\ ~e.error
    /\ e.isExamStarted /\ ~e.isExamCompleted
    /\ e.currentClipIndex < Len(e.voiceClips)

\* -------------------------------------------- PracticeTestDetailScreen
\* selectedClipId === null
NoClip == 0

\* the useState values of the screen after the first render; stops and
\* analyses hold the clip id each waiting call was made with
NewPractice ==
    [isLoading |-> TRUE, error |-> FALSE, voiceClips |-> <<>>,
     selectedClipId |-> NoClip, selectedClip |-> NoClip,
     isRecording |-> FALSE, isAnalyzing |-> FALSE, analysisResult |-> NULL,
     starts |-> 0, stops |-> <<>>, analyses |-> <<>>, lastAlert |-> ""]

\* voiceClips.find(c => c.id === clipId) || null
FindClip(clips, clipId) ==
    IF \E k \in 1..Len(clips) : clips[k] = clipId THEN clipId ELSE NoClip

\* {selectedClip && !analysisResult && ( ... <AudioRecorder/> ... )}
PracticeRecorderShown(p) ==
    /\ ~p.isLoading /\ ~p.error
    /\ p.selectedClip # NoClip /\ p.analysisResult = NULL

\* --------------------------------------------------------------- Init
NewReq == [ pc |-> "new", retry |-> FALSE, sends |-> 0, header |-> NULL,
            status |-> 0, error |-> NoError, token |-> NULL, kind |-> "plain",
            clipId |-> "", file |-> [ type |-> <<>>, name |-> <<>> ] ]

NoResponse == [ tokenField |-> "none", token |-> NULL, refresh |-> NULL,
                userShape |-> "flat" ]

NewLogin == [ pc |-> "idle", sends |-> 0, status |-> 0, error |-> NoError,
              resp |-> NoResponse ]

\* no logout is running; inCatch says whether logout is in its catch block
NewLogout == [ pc |-> "idle", inCatch |-> FALSE ]

Init ==
    /\ authToken = NULL
    /\ currentUser = NULL
    /\ isRefreshing = FALSE
    /\ failedQueue = <<>>
    /\ navigationRef = FALSE
    /\ navRoute = "none"
    /\ storage \in [ auth_token : {NULL} \cup Tokens,
                     user_data : {NULL} \cup { JsonStringify(u) : u \in Users },
                     refresh_token : {NULL} \cup RefreshValues ]
    /\ storageOk = TRUE
    /\ faults = 0
    /\ initPc = "start"
    /\ initToken = NULL
    /\ req = [ r \in Reqs |-> NewReq ]
    /\ lg = NewLogin
    /\ lo = NewLogout
    /\ engine = NewEngine
    /\ exam = NewExam
    /\ practice = NewPractice

\* ------------------------------------------------------- environment
\* AsyncStorage starts or stops throwing
StorageFault ==
    /\ faults < MaxFaults
    /\ storageOk' = ~storageOk
    /\ faults' = faults + 1
    /\ UNCHANGED << screens, lo, authToken, currentUser, isRefreshing, failedQueue,
                    navigationRef, navRoute, storage, initPc, initToken, req, lg >>

\* ----------------------------------------------------- initializeAuth
\* await AsyncStorage.getItem(AUTH_TOKEN_KEY); a throw returns null/null
InitReadToken ==
    /\ initPc = "start"
    /\ IF storageOk
       THEN initPc' = "user" /\ initToken' = storage["auth_token"]
       ELSE initPc' = "done" /\ UNCHANGED initToken
    /\ UNCHANGED << screens, lo, authToken, currentUser, isRefreshing, failedQueue,
                    navigationRef, navRoute, storage, storageOk, faults, req, lg >>

\* await AsyncStorage.getItem(USER_DATA_KEY), then both assignments
InitReadUser ==
    /\ initPc = "user"
    /\ initPc' = "done"
    /\ IF storageOk
       THEN /\ authToken' = IF initToken # NULL THEN initToken ELSE authToken
            /\ currentUser' = IF storage["user_data"] # NULL
                              THEN JsonParse(storage["user_data"])
                              ELSE currentUser
       ELSE UNCHANGED << authToken, currentUser >>
    /\ UNCHANGED << screens, lo, isRefreshing, failedQueue, navigationRef, navRoute,
                    storage, storageOk, faults, initToken, req, lg >>

\* App renders the NavigationContainer once initializeAuth has finished;
\* AppNavigator picks the initial route from getAuthToken/getCurrentUser
NavigatorMount ==
    /\ initPc = "done"
    /\ navRoute = "none"
    /\ navRoute' = InitialRoute(authToken, currentUser)
    /\ UNCHANGED << screens, lo, authToken, currentUser, isRefreshing, failedQueue,
                    navigationRef, storage, storageOk, faults, initPc,
                    initToken, req, lg >>

\* App effect: setNavigationRef(navigationRef.current) once a ref exists
SetNavigationRef ==
    /\ navRoute # "none"
    /\ ~navigationRef
    /\ navigationRef' = TRUE
    /\ UNCHANGED << screens, lo, authToken, currentUser, isRefreshing, failedQueue,
                    navRoute, storage, storageOk, faults, initPc, initToken,
                    req, lg >>

\* ------------------------------------------------- api client requests
\* a dashboard screen calls an api function (fetchVoiceClips, ...); the
\* requests are numbered in the order of their calls
Call(r) ==
    /\ navRoute = "Dashboard"
    /\ req[r].pc = "new"
    /\ \A q \in Reqs : q < r => req[q].pc # "new"
    /\ req' = [req EXCEPT ![r] = Send(@, authToken)]
    /\ UNCHANGED << screens, lo, authToken, currentUser, isRefreshing, failedQueue,
                    navigationRef, navRoute, storage, storageOk, faults,
                    initPc, initToken, lg >>

\* the audio files a caller may hand to analyzeVoiceComparison: a MIME type
\* (major part, minor part) and a name (its pieces between the dots)
FileTypes == { <<>>, <<"audio/", "mp3">>, <<"audio/", "mpeg">>, <<"audio/", "wav">>,
               <<"audio/", "mp4">>, <<"video/", "mp4">>, <<"video/", "quicktime">>,
               <<"application/", "pdf">> }

FileNames == { <<"">>, <<"rec">>, <<"rec", "mp3">>, <<"rec", "MP3">>, <<"rec", "mp4">>,
               <<"rec", "wav">>, <<"rec", "m4a">>, <<"rec", "mov">>, <<"rec", "avi">>,
               <<"rec", "pdf">>, <<"rec", "mp4", "mp3">> }

Files == [ type : FileTypes, name : FileNames ]

NoFile == [ type |-> <<>>, name |-> <<>> ]

\* fileName.split('.').pop()?.toLowerCase() || ''
FileExtension(f) == ToLowerCase(Last(f.name))

\* const isMP3 = type is audio/mp3 or audio/mpeg, or the extension is mp3
IsMP3(f) ==
    \/ f.type = <<"audio/", "mp3">>
    \/ f.type = <<"audio/", "mpeg">>
    \/ FileExtension(f) = "mp3"

\* mutant: only the extension tells a video
IsVideoByExtension(f) == FileExtension(f) \in { "mp4", "mov", "avi" }

\* fileType.startsWith('video/') or the extension is mp4, mov or avi
IsVideo(f) ==
    \/ StartsWith(f.type, "video/")
    \/ FileExtension(f) \in { "mp4", "mov", "avi" }

InvalidFileType ==
    NewError(<<"Invalid file type. Only MP3 audio files are accepted. Please upload an MP3 file.">>)

VideoNotAccepted ==
    NewError(<<"Video files are not accepted. Please upload an MP3 audio file.">>)

\* analyzeVoiceComparison(originalClipId, userAudioFile, testId): the file is
\* validated, then api.post('/analyze-voice/', formData) goes out
Analyze(r) ==
    /\ navRoute = "Dashboard"
    /\ req[r].pc = "new"
    /\ \E clipId \in ClipIds, f \in Files \cup {NoFile} :
         LET rec == [req[r] EXCEPT !.kind = "analyze", !.clipId = clipId, !.file = f]
         IN  req' = [req EXCEPT ![r] =
                        IF f # NoFile /\ ~IsMP3(f)
                        THEN [rec EXCEPT !.pc = "rejected", !.error = InvalidFileType]
                        ELSE IF f # NoFile /\ IsVideo(f)
                        THEN [rec EXCEPT !.pc = "rejected", !.error = VideoNotAccepted]
                        ELSE Send(rec, authToken)]
    /\ UNCHANGED << screens, lo, authToken, currentUser, isRefreshing, failedQueue,
                    navigationRef, navRoute, storage, storageOk, faults,
                    initPc, initToken, lg >>

\* response interceptor, success handler: the response is passed on
RespondOk(r) ==
    /\ req[r].pc = "sent"
    /\ req' = [req EXCEPT ![r].pc = "resolved", ![r].status = 200]
    /\ UNCHANGED << screens, lo, authToken, currentUser, isRefreshing, failedQueue,
                    navigationRef, navRoute, storage, storageOk, faults,
                    initPc, initToken, lg >>

\* if (!error.response || !originalRequest) return Promise.reject(error)
RespondNone(r) ==
    /\ req[r].pc = "sent"
    /\ req' = [req EXCEPT ![r] = Settle([@ EXCEPT !.status = 0], AxiosError(0))]
    /\ UNCHANGED << screens, lo, authToken, currentUser, isRefreshing, failedQueue,
                    navigationRef, navRoute, storage, storageOk, faults,
                    initPc, initToken, lg >>

\* mutant: a rejected request is sent once more
RespondErrorResend(r, statuses, shapes) ==
    /\ req[r].pc = "sent"
    /\ req[r].sends < 4
    /\ \E st \in statuses \ {401} :
          req' = [req EXCEPT ![r] = Send([@ EXCEPT !.status = st], authToken)]
    /\ UNCHANGED << screens, lo, authToken, currentUser, isRefreshing, failedQueue,
                    navigationRef, navRoute, storage, storageOk, faults,
                    initPc, initToken, lg >>

\* 403, 404, 400 and every other status but 401; the server answers with
\* one of statuses, a 400 comes with response data of one of the shapes
RespondError(r, statuses, shapes) ==
    /\ req[r].pc = "sent"
    /\ \E st \in statuses \ {401}, data \in shapes :
          /\ (st # 400 => data = "none")
          /\ req' = [req EXCEPT ![r] = Settle([@ EXCEPT !.status = st],
                                                  MapError(st, data))]
    /\ UNCHANGED << screens, lo, authToken, currentUser, isRefreshing, failedQueue,
                    navigationRef, navRoute, storage, storageOk, faults,
                    initPc, initToken, lg >>

\* 401 on a request already marked _retry: clearAuth() up to its await
Respond401Retried(r) ==
    /\ req[r].pc = "sent"
    /\ AlreadyRetried(req[r])
    /\ authToken' = NULL
    /\ currentUser' = NULL
    /\ req' = [req EXCEPT ![r].pc = "expired_clear", ![r].status = 401]
    /\ UNCHANGED << screens, lo, isRefreshing, failedQueue, navigationRef, navRoute,
                    storage, storageOk, faults, initPc, initToken, lg >>

\* clearAuth() returns; redirectToLogin(); reject 'Session expired...'
ExpiredDone(r) ==
    /\ req[r].pc = "expired_clear"
    /\ storage' = MultiRemove(storage)
    /\ navRoute' = RedirectToLogin(navRoute)
    /\ req' = [req EXCEPT ![r] = Settle(@, SessionExpired)]
    /\ UNCHANGED << screens, lo, authToken, currentUser, isRefreshing, failedQueue,
                    navigationRef, storageOk, faults, initPc, initToken, lg >>

\* first 401 while a refresh is running: _retry = true, wait in failedQueue
Respond401Queue(r) ==
    /\ req[r].pc = "sent"
    /\ ~AlreadyRetried(req[r])
    /\ AlreadyRefreshing
    /\ failedQueue' = Append(failedQueue, r)
    /\ req' = [req EXCEPT ![r].pc = "queued", ![r].retry = TRUE,
                          ![r].status = 401]
    /\ UNCHANGED << screens, lo, authToken, currentUser, isRefreshing, navigationRef,
                    navRoute, storage, storageOk, faults, initPc, initToken, lg >>

\* first 401 and no refresh running: _retry = true, isRefreshing = true,
\* await import('./auth')
Respond401Refresh(r) ==
    /\ req[r].pc = "sent"
    /\ ~AlreadyRetried(req[r])
    /\ ~AlreadyRefreshing
    /\ isRefreshing' = TRUE
    /\ req' = [req EXCEPT ![r].pc = "rf_import", ![r].retry = TRUE,
                          ![r].status = 401]
    /\ UNCHANGED << screens, lo, authToken, currentUser, failedQueue, navigationRef,
                    navRoute, storage, storageOk, faults, initPc, initToken, lg >>

\* ------------------------------------------------------ token refresh
\* the refresh failed: processQueue(err), then clearAuth() up to its await
FailBranch(r, err, nextPc) ==
    /\ req' = [ q \in Reqs |->
                  IF q = r THEN [req[r] EXCEPT !.pc = nextPc]
                  ELSE IF InQueue(q) THEN QueueRejected(req[q], err)
                  ELSE req[q] ]
    /\ failedQueue' = <<>>
    /\ authToken' = NULL
    /\ currentUser' = NULL

\* the refresh succeeded: header of the original request, processQueue(null,
\* authToken), return api(originalRequest); finally isRefreshing = false
SuccessBranch(r) ==
    /\ req' = [ q \in Reqs |->
                  IF q = r
                  THEN Send([req[r] EXCEPT !.header =
                                 IF authToken # NULL THEN AuthHeader(authToken) ELSE @],
                            authToken)
                  ELSE IF InQueue(q) THEN QueueResolved(req[q], authToken)
                  ELSE req[q] ]
    /\ failedQueue' = <<>>
    /\ isRefreshing' = FALSE

\* await import('./auth') resolves: refreshToken() runs up to getItem.
\* refreshToken catches whatever it throws and the module is already loaded,
\* so the catch (refreshError) of the handler is never entered
RfImport(r) ==
    /\ req[r].pc = "rf_import"
    /\ req' = [req EXCEPT ![r].pc = "rf_getItem"]
    /\ UNCHANGED << screens, lo, authToken, currentUser, isRefreshing, failedQueue,
                    navigationRef, navRoute, storage, storageOk, faults,
                    initPc, initToken, lg >>

\* refreshToken: getItem(REFRESH_TOKEN_KEY) throws, catch calls clearAuth()
RfGetItemThrows(r) ==
    /\ req[r].pc = "rf_getItem"
    /\ ~storageOk
    /\ authToken' = NULL
    /\ currentUser' = NULL
    /\ req' = [req EXCEPT ![r].pc = "rf_clear"]
    /\ UNCHANGED << screens, lo, isRefreshing, failedQueue, navigationRef, navRoute,
                    storage, storageOk, faults, initPc, initToken, lg >>

\* refreshToken: no refresh token stored, return false
RfGetItemNone(r) ==
    /\ req[r].pc = "rf_getItem"
    /\ storageOk
    /\ storage["refresh_token"] = NULL
    /\ FailBranch(r, RefreshFailed, "fail_clear")
    /\ UNCHANGED << screens, lo, isRefreshing, navigationRef, navRoute, storage, storageOk,
                    faults, initPc, initToken, lg >>

\* refreshToken: authApi.post('/auth/token/refresh/') goes out
RfGetItem(r) ==
    /\ req[r].pc = "rf_getItem"
    /\ storageOk
    /\ storage["refresh_token"] # NULL
    /\ req' = [req EXCEPT ![r].pc = "rf_post"]
    /\ UNCHANGED << screens, lo, authToken, currentUser, isRefreshing, failedQueue,
                    navigationRef, navRoute, storage, storageOk, faults,
                    initPc, initToken, lg >>

\* refreshToken: response.data.access, setAuthToken(access) up to its await
RfPostAccess(r) ==
    /\ req[r].pc = "rf_post"
    /\ \E t \in Tokens :
          /\ authToken' = t
          /\ req' = [req EXCEPT ![r].pc = "rf_setToken", ![r].token = t]
    /\ UNCHANGED << screens, lo, currentUser, isRefreshing, failedQueue, navigationRef,
                    navRoute, storage, storageOk, faults, initPc, initToken, lg >>

\* refreshToken: a response without access, return false
RfPostNoAccess(r) ==
    /\ req[r].pc = "rf_post"
    /\ FailBranch(r, RefreshFailed, "fail_clear")
    /\ UNCHANGED << screens, lo, isRefreshing, navigationRef, navRoute, storage, storageOk,
                    faults, initPc, initToken, lg >>

\* refreshToken: the post fails, catch calls clearAuth()
RfPostFails(r) ==
    /\ req[r].pc = "rf_post"
    /\ authToken' = NULL
    /\ currentUser' = NULL
    /\ req' = [req EXCEPT ![r].pc = "rf_clear"]
    /\ UNCHANGED << screens, lo, isRefreshing, failedQueue, navigationRef, navRoute,
                    storage, storageOk, faults, initPc, initToken, lg >>

\* setAuthToken returns, refreshToken returns true: the success branch
RfSetTokenDone(r) ==
    /\ req[r].pc = "rf_setToken"
    /\ storage' = SetItem(storage, "auth_token", req[r].token)
    /\ SuccessBranch(r)
    /\ UNCHANGED << screens, lo, authToken, currentUser, navigationRef, navRoute,
                    storageOk, faults, initPc, initToken, lg >>

\* clearAuth returns inside refreshToken's catch, which returns false
RfClearDone(r) ==
    /\ req[r].pc = "rf_clear"
    /\ storage' = MultiRemove(storage)
    /\ FailBranch(r, RefreshFailed, "fail_clear")
    /\ UNCHANGED << screens, lo, isRefreshing, navigationRef, navRoute, storageOk, faults,
                    initPc, initToken, lg >>

\* else-branch: clearAuth returns; redirectToLogin(); reject; finally
FailClearDone(r) ==
    /\ req[r].pc = "fail_clear"
    /\ storage' = MultiRemove(storage)
    /\ navRoute' = RedirectToLogin(navRoute)
    /\ req' = [req EXCEPT ![r] = Settle(@, SessionExpired)]
    /\ isRefreshing' = FALSE
    /\ UNCHANGED << screens, lo, authToken, currentUser, failedQueue, navigationRef,
                    storageOk, faults, initPc, initToken, lg >>

\* ------------------------------------------------------ login (auth.ts)
\* the bodies the server may answer a login with: the token under token, key
\* or access (with or without refresh) or no token at all; the user under
\* user, as user_id, or as flat fields
LoginResponses ==
    { [ tokenField |-> f, token |-> t, refresh |-> rf, userShape |-> us ] :
        f \in { "token", "key", "access", "none" }, t \in Tokens,
        rf \in {NULL} \cup RefreshValues, us \in { "user", "user_id", "flat" } }

\* the failures of a login post: their status and the shape of their data
LoginFailures == { [ status |-> 400, data |-> "message" ],
                   [ status |-> 401, data |-> "string" ],
                   [ status |-> 500, data |-> "none" ],
                   [ status |-> 0,   data |-> "none" ] }

\* let token = data.token, else data.key, else data.access, else null
TokenOf(resp) == IF resp.tokenField = "none" THEN NULL ELSE resp.token

\* userData: data.user, else {id: user_id, ...data}, else the flat fields
UserDataOf(resp) ==
    CASE resp.userShape = "user"    -> <<"u1">>
      [] resp.userShape = "user_id" -> <<"id", "u1">>
      [] OTHER                      -> <<"flat", "u1">>

\* the catch of login: data.message, else string data, else the default
LoginError(f) ==
    CASE f.status # 0 /\ f.data = "message" -> NewError(<<"Invalid credentials">>)
      [] f.status # 0 /\ f.data = "string"  -> NewError(<<"Unauthorized">>)
      [] OTHER -> NewError(<<"Login failed. Please try again.">>)

\* LoginScreen.handleLogin with an empty password: login() is not called
LoginEmptyPassword ==
    /\ navRoute = "Login"
    /\ lg.pc = "idle"
    /\ lg' = [lg EXCEPT !.pc = "rejected",
                 !.error = NewError(<<"Password is empty. Please enter your password.">>)]
    /\ UNCHANGED << screens, lo, authToken, currentUser, isRefreshing, failedQueue,
                    navigationRef, navRoute, storage, storageOk, faults,
                    initPc, initToken, req >>

\* login() with an empty username: 'Username is required' is thrown inside
\* the try and replaced by the default message
LoginEmptyUsername ==
    /\ navRoute = "Login"
    /\ lg.pc = "idle"
    /\ lg' = [lg EXCEPT !.pc = "rejected",
                 !.error = NewError(<<"Login failed. Please try again.">>)]
    /\ UNCHANGED << screens, lo, authToken, currentUser, isRefreshing, failedQueue,
                    navigationRef, navRoute, storage, storageOk, faults,
                    initPc, initToken, req >>

\* login(): authApi.post('/auth/login/', loginPayload)
LoginCall ==
    /\ navRoute = "Login"
    /\ lg.pc = "idle"
    /\ lg' = [lg EXCEPT !.pc = "json", !.sends = @ + 1]
    /\ UNCHANGED << screens, lo, authToken, currentUser, isRefreshing, failedQueue,
                    navigationRef, navRoute, storage, storageOk, faults,
                    initPc, initToken, req >>

\* the JSON post fails, whatever the failure: the form-encoded post goes out
LoginJsonFails ==
    /\ lg.pc = "json"
    /\ \E f \in LoginFailures :
          lg' = [lg EXCEPT !.pc = "form", !.sends = @ + 1, !.status = f.status]
    /\ UNCHANGED << screens, lo, authToken, currentUser, isRefreshing, failedQueue,
                    navigationRef, navRoute, storage, storageOk, faults,
                    initPc, initToken, req >>

\* the form-encoded post fails too: throw formError, mapped by the catch
LoginFormFails ==
    /\ lg.pc = "form"
    /\ \E f \in LoginFailures :
          lg' = [lg EXCEPT !.pc = "rejected", !.status = f.status,
                           !.error = LoginError(f)]
    /\ UNCHANGED << screens, lo, authToken, currentUser, isRefreshing, failedQueue,
                    navigationRef, navRoute, storage, storageOk, faults,
                    initPc, initToken, req >>

\* the code after a successful post, up to its first await
LoginAfterResponse(resp) ==
    IF resp.tokenField = "access" /\ resp.refresh # NULL
    THEN \* await AsyncStorage.setItem(REFRESH_TOKEN_KEY, data.refresh)
         /\ lg' = [lg EXCEPT !.pc = "l_refresh", !.resp = resp]
         /\ UNCHANGED << authToken, navRoute >>
    ELSE IF TokenOf(resp) # NULL
    THEN \* setAuthToken(token) up to its await
         /\ authToken' = TokenOf(resp)
         /\ lg' = [lg EXCEPT !.pc = "l_setToken", !.resp = resp]
         /\ UNCHANGED navRoute
    ELSE \* no token: login returns response.data, the screen navigates
         /\ lg' = [lg EXCEPT !.pc = "done", !.resp = resp]
         /\ navRoute' = "Dashboard"
         /\ UNCHANGED authToken

\* either post succeeds
LoginResponse ==
    /\ lg.pc \in { "json", "form" }
    /\ \E resp \in LoginResponses :
          /\ (resp.tokenField # "access" => resp.refresh = NULL)
          /\ LoginAfterResponse(resp)
    /\ UNCHANGED << screens, lo, currentUser, isRefreshing, failedQueue, navigationRef,
                    storage, storageOk, faults, initPc, initToken, req >>

\* the refresh token is stored (a throw here reaches the catch of login),
\* then setAuthToken(token) up to its await
LoginRefreshStored ==
    /\ lg.pc = "l_refresh"
    /\ IF storageOk
       THEN /\ storage' = [storage EXCEPT !["refresh_token"] = lg.resp.refresh]
            /\ authToken' = TokenOf(lg.resp)
            /\ lg' = [lg EXCEPT !.pc = "l_setToken"]
       ELSE /\ lg' = [lg EXCEPT !.pc = "rejected",
                         !.error = NewError(<<"Login failed. Please try again.">>)]
            /\ UNCHANGED << storage, authToken >>
    /\ UNCHANGED << screens, lo, currentUser, isRefreshing, failedQueue, navigationRef,
                    navRoute, storageOk, faults, initPc, initToken, req >>

\* setAuthToken returns; setCurrentUser(userData) up to its await
LoginTokenStored ==
    /\ lg.pc = "l_setToken"
    /\ storage' = SetItem(storage, "auth_token", TokenOf(lg.resp))
    /\ currentUser' = UserDataOf(lg.resp)
    /\ lg' = [lg EXCEPT !.pc = "l_setUser"]
    /\ UNCHANGED << screens, lo, authToken, isRefreshing, failedQueue, navigationRef,
                    navRoute, storageOk, faults, initPc, initToken, req >>

\* setCurrentUser returns; login returns and LoginScreen replaces the route
LoginUserStored ==
    /\ lg.pc = "l_setUser"
    /\ storage' = SetItem(storage, "user_data", JsonStringify(UserDataOf(lg.resp)))
    /\ lg' = [lg EXCEPT !.pc = "done"]
    /\ navRoute' = "Dashboard"
    /\ UNCHANGED << screens, lo, authToken, currentUser, isRefreshing, failedQueue,
                    navigationRef, storageOk, faults, initPc, initToken, req >>

LoginNext ==
    \/ LoginEmptyPassword
    \/ LoginEmptyUsername
    \/ LoginCall
    \/ LoginJsonFails
    \/ LoginFormFails
    \/ LoginResponse
    \/ LoginRefreshStored
    \/ LoginTokenStored
    \/ LoginUserStored

\* ----------------------------------------------------- logout (auth.ts)
\* StudentProfileScreen.handleLogout, 'Logout' pressed: logout() runs up to
\* await authApi.post('/auth/logout/')
LogoutPress ==
    /\ navRoute = "Dashboard"
    /\ lo.pc \in { "idle", "rejected" }
    /\ lo' = [ pc |-> "post", inCatch |-> FALSE ]
    /\ UNCHANGED << screens, authToken, currentUser, isRefreshing, failedQueue,
                    navigationRef, navRoute, storage, storageOk, faults,
                    initPc, initToken, req, lg >>

\* the post resolves (try) or fails (catch): clearAuth() up to its await
LogoutPostSettles ==
    /\ lo.pc = "post"
    /\ \E failed \in BOOLEAN : lo' = [ pc |-> "clear", inCatch |-> failed ]
    /\ authToken' = NULL
    /\ currentUser' = NULL
    /\ UNCHANGED << screens, isRefreshing, failedQueue, navigationRef, navRoute,
                    storage, storageOk, faults, initPc, initToken, req, lg >>

\* clearAuth returns: await AsyncStorage.removeItem(REFRESH_TOKEN_KEY)
LogoutClearDone ==
    /\ lo.pc = "clear"
    /\ storage' = MultiRemove(storage)
    /\ lo' = [lo EXCEPT !.pc = "remove"]
    /\ UNCHANGED << screens, authToken, currentUser, isRefreshing, failedQueue,
                    navigationRef, navRoute, storageOk, faults, initPc,
                    initToken, req, lg >>

\* removeItem returns: logout resolves and handleLogout resets the route to
\* Login. A throw in the try block enters the catch, which calls clearAuth()
\* again; a throw in the catch block rejects logout and the alert is shown
LogoutRemoveDone ==
    /\ lo.pc = "remove"
    /\ IF storageOk
       THEN /\ storage' = [storage EXCEPT !["refresh_token"] = NULL]
            /\ lo' = [lo EXCEPT !.pc = "done"]
            /\ navRoute' = "Login"
            /\ UNCHANGED << authToken, currentUser >>
       ELSE IF ~lo.inCatch
       THEN /\ lo' = [ pc |-> "clear", inCatch |-> TRUE ]
            /\ authToken' = NULL
            /\ currentUser' = NULL
            /\ UNCHANGED << storage, navRoute >>
       ELSE /\ lo' = [lo EXCEPT !.pc = "rejected"]
            /\ UNCHANGED << storage, navRoute, authToken, currentUser >>
    /\ UNCHANGED << screens, isRefreshing, failedQueue, navigationRef, storageOk,
                    faults, initPc, initToken, req, lg >>

\* ------------------------------------------- analysis engine pipeline
\* a request arrives with the feature sequences of the user recording and
\* of the reference clip
EngineSubmit ==
    /\ engine.pc = "idle"
    /\ \E u \in FeatureSequences, f \in FeatureSequences :
          engine' = [engine EXCEPT !.pc = "submitted", !.user = u, !.ref = f]
    /\ UNCHANGED << authToken, currentUser, isRefreshing, failedQueue,
                    navigationRef, navRoute, storage, storageOk, faults,
                    initPc, initToken, req, lg, lo, exam, practice >>

\* Alignment Engine: AlignmentError below the minimum frame count
EngineAlign ==
    /\ engine.pc = "submitted"
    /\ IF TooShort(engine.user, engine.ref)
       THEN engine' = [engine EXCEPT !.pc = "failed", !.error = "AlignmentError"]
       ELSE engine' = [engine EXCEPT !.pc = "aligned",
                          !.path = WarpingPath(engine.user, engine.ref)]
    /\ UNCHANGED << authToken, currentUser, isRefreshing, failedQueue,
                    navigationRef, navRoute, storage, storageOk, faults,
                    initPc, initToken, req, lg, lo, exam, practice >>

\* Scorer: total once the inputs are aligned
EngineScore ==
    /\ engine.pc = "aligned"
    /\ engine' = [engine EXCEPT !.pc = "scored",
                     !.result = ScoreAlignment(engine.path, engine.user, engine.ref)]
    /\ UNCHANGED << authToken, currentUser, isRefreshing, failedQueue,
                    navigationRef, navRoute, storage, storageOk, faults,
                    initPc, initToken, req, lg, lo, exam, practice >>

\* ------------------------------------------------ ExamTestDetailScreen
\* the module state of the api client, which the screens leave alone
client == << authToken, currentUser, isRefreshing, failedQueue, navigationRef,
             navRoute, storage, storageOk, faults, initPc, initToken, req, lg,
             lo >>

\* calls of startRecording, stopRecording and analyzeAudio at their await
ExamInFlight == exam.starts + Len(exam.stops) + Len(exam.analyses)

\* loadData: the exam and its clips arrive; limits are the time limits (in
\* minutes, 0 for none) an exam may carry
ExamLoadData(limits) ==
    /\ exam.isLoading
    /\ \E n \in 1..NumClips, t \in limits :
          exam' = Render(exam,
                    [exam EXCEPT !.isLoading = FALSE, !.timeLimit = t,
                        !.voiceClips = [ k \in 1..n |-> k ],
                        !.timeRemaining = IF t # 0 THEN << t * SecondsPerMinute >>
                                          ELSE NULL])
    /\ UNCHANGED << client, engine, practice >>

\* loadData: a request fails, the error screen is shown
ExamLoadFails ==
    /\ exam.isLoading
    /\ exam' = [exam EXCEPT !.isLoading = FALSE, !.error = TRUE]
    /\ UNCHANGED << client, engine, practice >>

\* the Start Exam button of the start card
HandleStartExam ==
    /\ ~exam.isLoading /\ ~exam.error
    /\ ~exam.isExamStarted /\ ~exam.isExamCompleted
    /\ ~exam.showConfirmModal
    /\ exam' = [exam EXCEPT !.showConfirmModal = TRUE]
    /\ UNCHANGED << client, engine, practice >>

\* the Cancel button of the confirmation modal
CancelStartExam ==
    /\ exam.showConfirmModal
    /\ exam' = [exam EXCEPT !.showConfirmModal = FALSE]
    /\ UNCHANGED << client, engine, practice >>

\* the Start button of the confirmation modal
ConfirmStartExam ==
    /\ exam.showConfirmModal
    /\ exam' = Render(exam,
                 [exam EXCEPT !.showConfirmModal = FALSE,
                              !.isExamStarted = TRUE,
                              !.analysisResults = <<>>])
    /\ UNCHANGED << client, engine, practice >>

\* AudioRecorder.startRecording up to await startAudioRecording()
ExamStartPress(limit) ==
    /\ RecorderShown(exam)
    /\ ~exam.isAnalyzing /\ ~exam.isRecording
    /\ ExamInFlight < limit
    /\ exam' = [exam EXCEPT !.starts = @ + 1]
    /\ UNCHANGED << client, engine, practice >>

\* startAudioRecording() returned: setIsRecording(true)
ExamStartResolved ==
    /\ exam.starts > 0
    /\ exam' = [exam EXCEPT !.starts = @ - 1, !.isRecording = TRUE]
    /\ UNCHANGED << client, engine, practice >>

\* startAudioRecording() threw: the Recording Error alert
ExamStartFails ==
    /\ exam.starts > 0
    /\ exam' = [exam EXCEPT !.starts = @ - 1, !.lastAlert = "Recording Error"]
    /\ UNCHANGED << client, engine, practice >>

\* AudioRecorder.stopRecording up to await stopAudioRecording(); the call
\* keeps the onRecordingComplete of the render it was made in
ExamStopPress(limit) ==
    /\ RecorderShown(exam)
    /\ ~exam.isAnalyzing /\ exam.isRecording
    /\ ExamInFlight < limit
    /\ exam' = [exam EXCEPT !.stops = Append(@,
                   [idx |-> exam.currentClipIndex,
                    seen |-> Len(exam.analysisResults)])]
    /\ UNCHANGED << client, engine, practice >>

\* stopAudioRecording() returned a uri: handleRecordingComplete and
\* analyzeAudio up to await analyzeVoiceComparison(...)
ExamStopResolved(k) ==
    /\ k \in 1..Len(exam.stops)
    /\ LET s == exam.stops[k]
           e == [exam EXCEPT !.stops = Remove(@, k), !.isRecording = FALSE]
       IN  exam' =
             IF s.idx >= Len(exam.voiceClips) THEN e
             ELSE IF IsMP3(RecordedFile) /\ ~IsVideo(RecordedFile)
             THEN [e EXCEPT !.isAnalyzing = TRUE, !.analyses = Append(@, s)]
             ELSE [e EXCEPT !.isAnalyzing = FALSE, !.lastAlert = "Analysis Error"]
    /\ UNCHANGED << client, engine, practice >>

\* stopAudioRecording() returned null or threw
ExamStopResolvedNull(k) ==
    /\ k \in 1..Len(exam.stops)
    /\ exam' = [exam EXCEPT !.stops = Remove(@, k), !.isRecording = FALSE,
                            !.lastAlert = "Recording Error"]
    /\ UNCHANGED << client, engine, practice >>

\* analyzeAudio after the await: the result is appended, then the next
\* clip or handleExamComplete, then finally
ExamAnalysisSucceeds(k, scores) ==
    /\ k \in 1..Len(exam.analyses)
    /\ \E sc \in scores :
          LET a == exam.analyses[k]
              e == [exam EXCEPT
                      !.analyses = Remove(@, k),
                      !.analysisResults = Append(@,
                          [originalClipId |-> exam.voiceClips[a.idx + 1],
                           similarityScore |-> sc]),
                      !.isAnalyzing = FALSE]
          IN  exam' = Render(exam,
                        IF a.idx < Len(exam.voiceClips) - 1
                        THEN [e EXCEPT !.currentClipIndex = a.idx + 1]
                        ELSE HandleExamComplete(e, Seen(exam, a.seen)))
    /\ UNCHANGED << client, engine, practice >>

\* mutant: a failed analysis moves on to the next clip
ExamAnalysisFailsAdvancing(k) ==
    /\ k \in 1..Len(exam.analyses)
    /\ exam' = [exam EXCEPT !.analyses = Remove(@, k),
                  !.currentClipIndex =
                      IF @ < Len(exam.voiceClips) - 1 THEN @ + 1 ELSE @,
                  !.isAnalyzing = FALSE, !.lastAlert = "Analysis Error"]
    /\ UNCHANGED << client, engine, practice >>

\* analyzeAudio: analyzeVoiceComparison rejected, catch and finally
ExamAnalysisFails(k) ==
    /\ k \in 1..Len(exam.analyses)
    /\ exam' = [exam EXCEPT !.analyses = Remove(@, k),
                            !.isAnalyzing = FALSE,
                            !.lastAlert = "Analysis Error"]
    /\ UNCHANGED << client, engine, practice >>

\* the interval callback of the timer effect
TimerTick ==
    /\ exam.interval
    /\ LET prevTime == exam.timeRemaining[1]
       IN  exam' = Render(exam,
                     IF TimeIsUp(prevTime)
                     THEN HandleExamComplete([exam EXCEPT !.timeRemaining = << 0 >>],
                                             Seen(exam, exam.effectSeen))
                     ELSE [exam EXCEPT !.timeRemaining = << prevTime - 1 >>])
    /\ UNCHANGED << client, engine, practice >>

\* -------------------------------------------- PracticeTestDetailScreen
PracticeInFlight == practice.starts + Len(practice.stops) + Len(practice.analyses)

\* loadData: the practice test and its clips arrive, the first is selected
PracticeLoadData ==
    /\ practice.isLoading
    /\ \E n \in 1..NumClips :
          practice' = [practice EXCEPT !.isLoading = FALSE,
                          !.voiceClips = [ k \in 1..n |-> k ],
                          !.selectedClipId = 1, !.selectedClip = 1]
    /\ UNCHANGED << client, engine, exam >>

\* loadData: a request fails, the error screen is shown
PracticeLoadFails ==
    /\ practice.isLoading
    /\ practice' = [practice EXCEPT !.isLoading = FALSE, !.error = TRUE]
    /\ UNCHANGED << client, engine, exam >>

\* a row of the clip list is pressed
HandleClipSelection(clipId) ==
    /\ ~practice.isLoading /\ ~practice.error
    /\ \E k \in 1..Len(practice.voiceClips) : practice.voiceClips[k] = clipId
    /\ practice' = [practice EXCEPT !.selectedClipId = clipId,
                       !.selectedClip = FindClip(practice.voiceClips, clipId),
                       !.analysisResult = NULL]
    /\ UNCHANGED << client, engine, exam >>

\* AudioRecorder.startRecording up to await startAudioRecording()
PracticeStartPress ==
    /\ PracticeRecorderShown(practice)
    /\ ~practice.isAnalyzing /\ ~practice.isRecording
    /\ PracticeInFlight < MaxInFlight
    /\ practice' = [practice EXCEPT !.starts = @ + 1]
    /\ UNCHANGED << client, engine, exam >>

\* startAudioRecording() returned: setIsRecording(true)
PracticeStartResolved ==
    /\ practice.starts > 0
    /\ practice' = [practice EXCEPT !.starts = @ - 1, !.isRecording = TRUE]
    /\ UNCHANGED << client, engine, exam >>

\* startAudioRecording() threw: the Recording Error alert
PracticeStartFails ==
    /\ practice.starts > 0
    /\ practice' = [practice EXCEPT !.starts = @ - 1,
                                    !.lastAlert = "Recording Error"]
    /\ UNCHANGED << client, engine, exam >>

\* AudioRecorder.stopRecording up to await stopAudioRecording(); the call
\* keeps the onRecordingComplete of the render it was made in
PracticeStopPress ==
    /\ PracticeRecorderShown(practice)
    /\ ~practice.isAnalyzing /\ practice.isRecording
    /\ PracticeInFlight < MaxInFlight
    /\ practice' = [practice EXCEPT !.stops = Append(@, practice.selectedClipId)]
    /\ UNCHANGED << client, engine, exam >>

\* stopAudioRecording() returned a uri: handleRecordingComplete and
\* analyzeAudio up to await analyzeVoiceComparison(...)
PracticeStopResolved(k) ==
    /\ k \in 1..Len(practice.stops)
    /\ LET clipId == practice.stops[k]
           p == [practice EXCEPT !.stops = Remove(@, k), !.isRecording = FALSE]
       IN  practice' =
             IF clipId = NoClip THEN p
             ELSE IF IsMP3(RecordedFile) /\ ~IsVideo(RecordedFile)
             THEN [p EXCEPT !.isAnalyzing = TRUE, !.analyses = Append(@, clipId)]
             ELSE [p EXCEPT !.isAnalyzing = FALSE, !.lastAlert = "Analysis Error"]
    /\ UNCHANGED << client, engine, exam >>

\* stopAudioRecording() returned null or threw
PracticeStopResolvedNull(k) ==
    /\ k \in 1..Len(practice.stops)
    /\ practice' = [practice EXCEPT !.stops = Remove(@, k),
                       !.isRecording = FALSE, !.lastAlert = "Recording Error"]
    /\ UNCHANGED << client, engine, exam >>

\* analyzeAudio after the await: setAnalysisResult(result), then finally
PracticeAnalysisSucceeds(k) ==
    /\ k \in 1..Len(practice.analyses)
    /\ \E sc \in Scores :
          practice' = [practice EXCEPT
                         !.analyses = Remove(@, k),
                         !.analysisResult =
                             << [originalClipId |-> practice.analyses[k],
                                 similarityScore |-> sc] >>,
                         !.isAnalyzing = FALSE]
    /\ UNCHANGED << client, engine, exam >>

\* analyzeAudio: analyzeVoiceComparison rejected, catch and finally
PracticeAnalysisFails(k) ==
    /\ k \in 1..Len(practice.analyses)
    /\ practice' = [practice EXCEPT !.analyses = Remove(@, k),
                                    !.isAnalyzing = FALSE,
                                    !.lastAlert = "Analysis Error"]
    /\ UNCHANGED << client, engine, exam >>

\* ----------------------------------------------------- specification
\* the 401 handling and the refresh of request r
RefreshNext(r) ==
    \/ Respond401Retried(r)
    \/ ExpiredDone(r)
    \/ Respond401Refresh(r)
    \/ RfImport(r)
    \/ RfGetItemThrows(r)
    \/ RfGetItemNone(r)
    \/ RfGetItem(r)
    \/ RfPostAccess(r)
    \/ RfPostNoAccess(r)
    \/ RfPostFails(r)
    \/ RfSetTokenDone(r)
    \/ RfClearDone(r)
    \/ FailClearDone(r)

StartNext ==
    \/ StorageFault
    \/ InitReadToken
    \/ InitReadUser
    \/ NavigatorMount
    \/ SetNavigationRef

\* the api client under NumReqs concurrent requests
ApiNext ==
    \E r \in Reqs :
        \/ Call(r)
        \/ RespondOk(r)
        \/ RespondNone(r)
        \/ RespondError(r, PlainStatuses, PlainShapes)
        \/ Respond401Queue(r)
        \/ RefreshNext(r)

Next == StartNext \/ ApiNext

Spec == Init /\ [][Next]_vars

\* one analyzeVoiceComparison call, answered with every status
AnalyzeNext ==
    \/ Analyze(1)
    \/ RespondOk(1)
    \/ RespondNone(1)
    \/ RespondError(1, ErrStatuses, BadRequestData)
    \/ RefreshNext(1)

NextAnalyze == StartNext \/ AnalyzeNext

SpecAnalyze == Init /\ [][NextAnalyze]_vars

\* a login call next to one request of the api client
OneNext ==
    \/ Call(1)
    \/ RespondOk(1)
    \/ RespondNone(1)
    \/ RespondError(1, ErrStatuses, BadRequestData)
    \/ RefreshNext(1)

NextLogin == StartNext \/ LoginNext \/ OneNext

SpecLogin == Init /\ [][NextLogin]_vars

\* a logout next to one request of the api client
NextLogout ==
    \/ StartNext
    \/ OneNext
    \/ LogoutPress
    \/ LogoutPostSettles
    \/ LogoutClearDone
    \/ LogoutRemoveDone

SpecLogout == Init /\ [][NextLogout]_vars

\* the analysis engine runs on the backend, away from the client's storage
InitEngine ==
    /\ Init
    /\ storage = [auth_token |-> NULL, user_data |-> NULL, refresh_token |-> NULL]

NextEngine == EngineSubmit \/ EngineAlign \/ EngineScore

SpecEngine == InitEngine /\ [][NextEngine]_vars

\* the test screens are behind the login: a session is stored
InitSignedIn ==
    /\ Init
    /\ storage.auth_token # NULL
    /\ storage.user_data # NULL
    /\ storage.refresh_token # NULL

\* the exam screen: loading, starting, recording and analysing
ExamNext(limits, limit, scores) ==
    \/ ExamLoadData(limits)
    \/ ExamLoadFails
    \/ HandleStartExam
    \/ CancelStartExam
    \/ ConfirmStartExam
    \/ ExamStartPress(limit)
    \/ ExamStartResolved
    \/ ExamStartFails
    \/ ExamStopPress(limit)
    \/ \E k \in 1..limit :
          \/ ExamStopResolved(k)
          \/ ExamStopResolvedNull(k)
          \/ ExamAnalysisSucceeds(k, scores)
          \/ ExamAnalysisFails(k)

\* an exam without a time limit, the recorder buttons pressed at will
NextExam == ExamNext({ 0 }, MaxInFlight, { 90 })

SpecExam == InitSignedIn /\ [][NextExam]_vars

\* an exam without a time limit, one recording at a time, results with
\* different scores
NextExamScored == ExamNext({ 0 }, 1, Scores)

SpecExamScored == InitSignedIn /\ [][NextExamScored]_vars

\* an exam with a time limit and its timer, one recording at a time
NextExamTimed == ExamNext(1..MaxTimeLimit, 1, { 90 }) \/ TimerTick

SpecExamTimed == InitSignedIn /\ [][NextExamTimed]_vars

\* the practice screen
NextPractice ==
    \/ PracticeLoadData
    \/ PracticeLoadFails
    \/ \E c \in 1..NumClips : HandleClipSelection(c)
    \/ PracticeStartPress
    \/ PracticeStartResolved
    \/ PracticeStartFails
    \/ PracticeStopPress
    \/ \E k \in 1..MaxInFlight :
          \/ PracticeStopResolved(k)
          \/ PracticeStopResolvedNull(k)
          \/ PracticeAnalysisSucceeds(k)
          \/ PracticeAnalysisFails(k)

SpecPractice == InitSignedIn /\ [][NextPractice]_vars

\* =============================================================== claims
\* a refreshToken() call started by the 401 handler of r has not returned
Refreshing(r) ==
    req[r].pc \in { "rf_import", "rf_getItem", "rf_post", "rf_setToken", "rf_clear" }

\* the response interceptor of r has just received the status st
Received(r, st) ==
    req[r].pc = "sent" /\ req'[r].pc # "sent" /\ req'[r].status = st

C2_QueuedSettled ==
    ~isRefreshing => (failedQueue = <<>> /\ \A r \in Reqs : req[r].pc # "queued")

RefreshFails(r) ==
    Refreshing(r) /\ req'[r].pc = "fail_clear"

\* the handler of r returns after the failed refresh
FailureDone(r) ==
    req[r].pc = "fail_clear" /\ req'[r].pc # "fail_clear"

Refused(r) == req[r].pc = "rejected" /\ req[r].sends = 0

\* r is an analyzeVoiceComparison call that was given a file
WithFile(r) == req[r].kind = "analyze" /\ req[r].file # NoFile

\* the accepted set of the API description: MP3, MP4, WAV or M4A, told by
\* the MIME type or by the extension
InAcceptedSet(f) ==
    \/ f.type \in { <<"audio/", "mp3">>, <<"audio/", "mpeg">>, <<"audio/", "wav">>,
                    <<"audio/", "mp4">> }
    \/ FileExtension(f) \in { "mp3", "mp4", "wav", "m4a" }

\* C5: the validation lets every file of the accepted set {mp3, mp4, wav,
\* m4a} through and refuses every file outside that set.
C5_AcceptedFormats ==
    \A r \in Reqs : WithFile(r) => (Refused(r) <=> ~InAcceptedSet(req[r].file))

\* C6: a file whose MIME type begins with 'video/' is refused whatever its
\* name, and no request is sent for it.
C6_VideoRejected ==
    \A r \in Reqs :
        (WithFile(r) /\ StartsWith(req[r].file.type, "video/"))
        => (Refused(r) /\ req[r].status = 0
            /\ req[r].error \in { InvalidFileType, VideoNotAccepted })

\* a video file under an mp3 name was refused
C6_Witness ==
    \E r \in Reqs :
        /\ WithFile(r) /\ req[r].file.type = <<"video/", "mp4">>
        /\ FileExtension(req[r].file) = "mp3"
        /\ Refused(r) /\ req[r].error = VideoNotAccepted

\* the analysis call of r was rejected after the server answered with st
AnalysisRejected(r, st) ==
    req[r].kind = "analyze" /\ req[r].pc = "rejected" /\ req[r].status = st

\* C7: an analysis answered with 404 rejects with 'Original voice clip with
\* ID <originalClipId> was not found.'
C7_ClipNotFound ==
    \A r \in Reqs :
        AnalysisRejected(r, 404)
        => req[r].error.msg =
             <<"Original voice clip with ID ", req[r].clipId, " was not found.">>

\* C8: an analysis answered with 413 rejects with 'The audio file is too
\* large. Please use a smaller file.', one answered with 415 with 'The audio
\* file format is not supported. Please upload an MP3 file.'
C8_TooLargeUnsupported ==
    \A r \in Reqs :
        /\ AnalysisRejected(r, 413)
           => req[r].error.msg =
                <<"The audio file is too large. Please use a smaller file.">>
        /\ AnalysisRejected(r, 415)
           => req[r].error.msg =
                <<"The audio file format is not supported. Please upload an MP3 file.">>

\* an analysis was sent again after a refresh and then answered with 413
C8_Witness ==
    \E r \in Reqs : AnalysisRejected(r, 413) /\ req[r].sends = 2

\* C9 as stated: no request is sent again but for the single retry after a
\* 401, so a request answered with 400 is never sent again.
C9_Original ==
    /\ \A r \in Reqs : req[r].sends <= (IF req[r].retry THEN 2 ELSE 1)
    /\ lg.sends <= 1

\* C9 amended: a request of the api client answered with 400 rejects and is
\* never sent again, and the api client sends a request a second time only
\* after a 401; login is the exception: when its JSON post fails, with a 400
\* as with any other failure, it posts the credentials once more,
\* form-encoded.
C9_NoResendOn400 ==
    /\ [](\A r \in Reqs : req[r].sends <= (IF req[r].retry THEN 2 ELSE 1))
    /\ [](lg.sends <= 2)
    /\ [][ /\ \A r \in Reqs :
               /\ Received(r, 400)
                  => (req'[r].pc = "rejected" /\ req'[r].sends = req[r].sends)
               /\ req'[r].sends > req[r].sends
                  => (req[r].pc = "new" \/ req[r].status = 401)
               /\ req[r].pc = "rejected" => req'[r] = req[r]
           /\ (lg.pc = "json" /\ lg'.pc # "json" /\ lg'.status = 400 /\ lg.status = 0)
              => (lg'.pc = "form" /\ lg'.sends = 2) ]_vars

\* a request of the api client was rejected with 400 after one send, in a
\* session whose login was posted twice
C9_Witness ==
    \E r \in Reqs :
        /\ req[r].pc = "rejected" /\ req[r].status = 400 /\ req[r].sends = 1
        /\ lg.pc = "done" /\ lg.sends = 2 /\ lg.status = 400

\* C10: every request sent while an auth token is held carries the header
\* 'Authorization: Bearer <token>'.
C10_BearerHeader ==
    [][ \A r \in Reqs :
          (req'[r].sends > req[r].sends /\ authToken' # NULL)
          => req'[r].header = <<"Bearer ">> \o authToken' ]_vars


\* ------------------------------------------------------ analysis engine
Aligned == engine.pc \in { "aligned", "scored" }

SubScores == { "pitch", "rhythm", "pronunciation" }

InUnitRange(x) == ~x.nan /\ 0 <= x.val /\ x.val <= Scale

Smallest(r) ==
    CHOOSE v \in { r[f].val : f \in SubScores } :
        \A f \in SubScores : v <= r[f].val

Largest(r) ==
    CHOOSE v \in { r[f].val : f \in SubScores } :
        \A f \in SubScores : v >= r[f].val

\* C11: for two feature sequences of at least the minimum length the
\* engine produces an alignment, and its warping path starts at (0,0),
\* ends at (lastUser,lastRef), never decreases in either index from one
\* step to the next, and maps every frame of both sequences.
C11_AlignmentPath ==
    /\ engine.pc = "failed" => TooShort(engine.user, engine.ref)
    /\ Aligned =>
         LET path == engine.path
             n == Len(engine.user)
             m == Len(engine.ref)
         IN  /\ ~TooShort(engine.user, engine.ref)
             /\ Len(path) >= 1
             /\ path[1] = << 0, 0 >>
             /\ path[Len(path)] = << n - 1, m - 1 >>
             /\ \A k \in 1..(Len(path) - 1) :
                   /\ path[k + 1][1] >= path[k][1]
                   /\ path[k + 1][2] >= path[k][2]
             /\ \A u \in 0..(n - 1) : \E k \in 1..Len(path) : path[k][1] = u
             /\ \A r \in 0..(m - 1) : \E k \in 1..Len(path) : path[k][2] = r

\* two sequences of different lengths have been aligned
C11_Witness ==
    /\ engine.pc = "aligned"
    /\ Len(engine.user) = MinFrames
    /\ Len(engine.ref) = MinFrames + 1
    /\ Len(engine.path) = MinFrames + 1

\* C12: every score of an analysis result (similarityScore and the three
\* sub-scores) lies in [0,1] and is not NaN; a reference without a voiced
\* frame gives the neutral pitch score 0.5.  The same range holds of the
\* mock result of the client.
C12_ScoresInRange ==
    /\ \A f \in SubScores \cup { "similarityScore" } :
          InUnitRange(mockAnalysisResult[f])
    /\ engine.pc = "scored" =>
         /\ \A f \in SubScores \cup { "similarityScore" } :
               InUnitRange(engine.result[f])
         /\ (\A k \in 1..Len(engine.ref) : ~Voiced(engine.ref[k]))
               => engine.result.pitch.val = Neutral

\* a recording with voiced frames was scored against an all-unvoiced
\* reference
C12_Witness ==
    /\ engine.pc = "scored"
    /\ \A k \in 1..Len(engine.ref) : ~Voiced(engine.ref[k])
    /\ \E k \in 1..Len(engine.user) : Voiced(engine.user[k])
    /\ engine.result.pitch.val = Neutral

\* C13: the similarityScore is the equal-weight average of the three
\* sub-scores (to the thousandth), so it lies between the smallest and
\* the largest sub-score; the mock result of the client lies between its
\* smallest and largest sub-score too.
C13_WeightedAverage ==
    /\ Smallest(mockAnalysisResult) <= mockAnalysisResult.similarityScore.val
    /\ mockAnalysisResult.similarityScore.val <= Largest(mockAnalysisResult)
    /\ engine.pc = "scored" =>
         LET r == engine.result
             total == r.pitch.val + r.rhythm.val + r.pronunciation.val
         IN  /\ 3 * r.similarityScore.val <= total
             /\ total < 3 * (r.similarityScore.val + 1)
             /\ Smallest(r) <= r.similarityScore.val
             /\ r.similarityScore.val <= Largest(r)

\* a result whose sub-scores differ and whose similarityScore is strictly
\* between them
C13_Witness ==
    /\ engine.pc = "scored"
    /\ Smallest(engine.result) < engine.result.similarityScore.val
    /\ engine.result.similarityScore.val < Largest(engine.result)

\* ---------------------------------------------------------- exam screen
ExamLoaded == ~exam.isLoading /\ ~exam.error

\* a completion alert is shown in this step
Completes == Len(exam'.alerts) > Len(exam.alerts)

\* an analysis fails in this step
AnalysisFailsNow ==
    /\ Len(exam'.analyses) < Len(exam.analyses)
    /\ Len(exam'.analysisResults) = Len(exam.analysisResults)
    /\ exam'.lastAlert = "Analysis Error"

\* C14: when an exam completes, the average in the completion alert is
\* the mean of the similarityScore of all results of the exam, the result
\* that triggered the completion included.
C14_AnnouncedAverage ==
    [][Completes =>
         exam'.alerts[Len(exam'.alerts)] = AverageScore(exam'.analysisResults)]_vars

\* C15: an exam only moves forward through not started, in progress and
\* completed: once started it stays started, once completed it stays
\* completed, and it is completed only after it was started.
C15_ForwardOnly ==
    /\ [](exam.isExamCompleted => exam.isExamStarted)
    /\ [][/\ exam.isExamStarted => exam'.isExamStarted
          /\ exam.isExamCompleted => exam'.isExamCompleted]_vars

\* an exam was completed by its timer while an analysis was in flight
C15_Witness ==
    /\ exam.isExamCompleted
    /\ exam.timeRemaining = << 0 >>
    /\ exam.analyses # <<>>

C17_CompletedOnce ==
    /\ [](Len(exam.alerts) <= 1)
    /\ [][exam.isExamCompleted =>
            exam'.analysisResults = exam.analysisResults]_vars

\* C18: when analyzeVoiceComparison fails during an exam, currentClipIndex
\* and analysisResults stay as they are and isAnalyzing is false again, so
\* an exam in progress still shows the same clip with its recorder.
C18_FailureFrame ==
    [][AnalysisFailsNow =>
         /\ exam'.currentClipIndex = exam.currentClipIndex
         /\ exam'.analysisResults = exam.analysisResults
         /\ ~exam'.isAnalyzing
         /\ RecorderShown(exam) => RecorderShown(exam')]_vars

\* the analysis of the second clip failed and the clip is shown again
C18_Witness ==
    /\ exam.lastAlert = "Analysis Error"
    /\ exam.currentClipIndex = 1
    /\ Len(exam.analysisResults) = 1
    /\ exam.analyses = <<>>
    /\ ~exam.isAnalyzing
    /\ RecorderShown(exam)

\* C19: in a loaded exam 0 <= currentClipIndex < number of clips, the
\* index never decreases, and while the exam is in progress with no
\* analysis in flight the number of results equals currentClipIndex.
C19_ClipIndex ==
    /\ [](ExamLoaded =>
            /\ 0 <= exam.currentClipIndex
            /\ exam.currentClipIndex < Len(exam.voiceClips))
    /\ [](exam.isExamStarted /\ ~exam.isExamCompleted /\ exam.analyses = <<>> =>
            Len(exam.analysisResults) = exam.currentClipIndex)
    /\ [][exam'.currentClipIndex >= exam.currentClipIndex]_vars

\* ------------------------------------------------------ practice screen
\* C20: the analysis result on the practice screen belongs to the selected
\* clip: a result of an analysis started for another clip is never shown.
C20_ResultOfSelectedClip ==
    practice.analysisResult # NULL =>
        practice.analysisResult[1].originalClipId = practice.selectedClipId

\* ------------------------------------------------------------ C21
\* C21: once logout has completed with no auth token in memory and none in
\* storage, no later step brings a token back (no login or register is made
\* in SpecLogout): in particular a token refresh that was in flight when the
\* session ended does not restore one.
C21_TokenStaysNull ==
    [][ (lo.pc = "done" /\ authToken = NULL /\ storage["auth_token"] = NULL)
            => (authToken' = NULL /\ storage'["auth_token"] = NULL) ]_vars

\* ------------------------------------------------------------ C22
\* login returns its response data to handleLogin, which replaces the route
LoginResolves == lg.pc # "done" /\ lg'.pc = "done"

\* C22: whenever login resolves successfully, so that the login screen
\* navigates to a dashboard, an auth token and a current user are held in
\* memory, whatever the shape of the response was.
C22_LoginHoldsSession ==
    [][ LoginResolves => (authToken' # NULL /\ currentUser' # NULL) ]_vars

\* ------------------------------------------------------------ C23
\* no auth operation is in progress: initializeAuth has returned and no
\* login, logout, token refresh or clearAuth is waiting at an await
AuthIdle ==
    /\ initPc = "done"
    /\ lg.pc \in { "idle", "done", "rejected" }
    /\ lo.pc \in { "idle", "done", "rejected" }
    /\ \A r \in Reqs :
          req[r].pc \in { "new", "sent", "queued", "resolved", "rejected" }

\* the values in memory are the persisted ones: both absent, or both present
\* and equal (the user compared with what JSON.parse gives back)
MemoryEqualsStorage ==
    /\ authToken = storage["auth_token"]
    /\ currentUser = IF storage["user_data"] = NULL THEN NULL
                     ELSE JsonParse(storage["user_data"])

\* C23: whenever no auth operation is in progress, the in-memory authToken
\* and currentUser equal the values persisted in storage, also after a
\* storage operation has failed.
C23_MemoryEqualsStorage == AuthIdle => MemoryEqualsStorage

====
